---------------------------- MODULE Spec2Model ----------------------------
(***************************************************************************)
(* Model of the Nansat object of src/nansat.py: the two virtual raster     *)
(* trees it owns (self.raw, self.vrt), the table self.addedBands, its      *)
(* construction from a file (__init__, _get_mapper) and the operations     *)
(* _get_band_number, add_band, resize, reproject, set_metadata, mosaic and *)
(* export; a second object (other) shows what two objects share.           *)
(*                                                                         *)
(* The VRT class (vrt.py), Domain (domain.py) and Node (nansat_tools.py)   *)
(* are not part of the sources at hand; VRT_copy, VRT_create_band,         *)
(* VRT_create_band_name, VRT_create_band_dst, VRT_of_dataset,              *)
(* VRT_create_warped_vrt, WarpedSource, GetMetadata and shape follow the   *)
(* specification's description of them.                                    *)
(***************************************************************************)
EXTENDS Integers, Sequences, FiniteSets, TLC

VARIABLES raw, vrt, addedBands, depth, call, old, other

vars == <<raw, vrt, addedBands, depth, call, old, other>>

-----------------------------------------------------------------------------
(* Bounds of the model.                                                    *)

\* most bands a tree holds; add_band is not taken beyond it
MaxBands == 2
\* most in-place resizes of one working tree between two rebuilds of it
MaxResizes == 2

-----------------------------------------------------------------------------
(* Python values.                                                          *)

\* None and a given optional argument
None == <<>>
Some(x) == <<x>>
IsNone(a) == a = None
Val(a) == a[1]

\* a dict is a set of <<key, value>> pairs with one pair per key
EmptyDict == {}
HasKey(d, k) == \E p \in d : p[1] = k
Get(d, k) == (CHOOSE p \in d : p[1] = k)[2]
\* d[k] = v
Put(d, k, v) == {p \in d : p[1] # k} \cup {<<k, v>>}
\* for k in e: d[k] = e[k]
Update(d, e) == {p \in d : ~HasKey(e, p[1])} \cup e

\* band identifiers: an int or a str
IntID(n) == [isStr |-> FALSE, i |-> n, s |-> ""]
StrID(x) == [isStr |-> TRUE, i |-> 0, s |-> x]

\* a positive rational num/den, the model of a Python float
Rat(n, d) == <<n, d>>
\* int(float(x) * f) for x >= 0: truncation towards zero
IntOfProduct(x, f) == (x * f[1]) \div f[2]


-----------------------------------------------------------------------------
(* Decimal numbers: the text of the Pixel and Line attributes of a GCP.    *)
(*                                                                         *)
(* A decimal is [ip, fr]: an integer part and the sequence of digits after *)
(* the point, without trailing zeros.  float(text) * factor is the exact   *)
(* product with the rational factor; str() of a float keeps               *)
(* StrDigits significant digits.                                           *)
(***************************************************************************)

\* significant digits of str(float) ('%.12g')
StrDigits == 12

Dec(ip, fr) == [ip |-> ip, fr |-> fr]
DecOfInt(n) == Dec(n, <<>>)

RECURSIVE NumDigits(_)
NumDigits(n) == IF n < 10 THEN 1 ELSE 1 + NumDigits(n \div 10)

RECURSIVE TrimZeros(_)
TrimZeros(ds) ==
    IF ds # <<>> /\ ds[Len(ds)] = 0 THEN TrimZeros(SubSeq(ds, 1, Len(ds) - 1))
    ELSE ds

\* digits 1..i of fr times a, with the carry out of digit 1
RECURSIVE MulDigits(_, _, _, _)
MulDigits(fr, a, i, carry) ==
    IF i = 0 THEN [carry |-> carry, digits |-> <<>>]
    ELSE LET p == fr[i] * a + carry
             rest == MulDigits(fr, a, i - 1, p \div 10)
         IN  [carry |-> rest.carry, digits |-> Append(rest.digits, p % 10)]

\* the decimal x times the integer a, exactly
DecTimes(x, a) ==
    LET m == MulDigits(x.fr, a, Len(x.fr), 0)
    IN  Dec(x.ip * a + m.carry, m.digits)

DigitAt(ds, j) == IF j <= Len(ds) THEN ds[j] ELSE 0

\* TRUE when the digits of ds from position j on are all zero
RECURSIVE ZeroFrom(_, _)
ZeroFrom(ds, j) == j > Len(ds) \/ (ds[j] = 0 /\ ZeroFrom(ds, j + 1))

\* long division of 0.ds by b with remainder r brought in: the quotient
\* digits j..k and the remainder after digit k
RECURSIVE DivDigits(_, _, _, _, _)
DivDigits(ds, b, r, j, k) ==
    IF j > k THEN [rem |-> r, digits |-> <<>>]
    ELSE LET cur == r * 10 + DigitAt(ds, j)
             rest == DivDigits(ds, b, cur % b, j + 1, k)
         IN  [rem |-> rest.rem, digits |-> <<cur \div b>> \o rest.digits]

\* number of zero quotient digits before the first nonzero one
RECURSIVE LeadingZeros(_, _, _, _)
LeadingZeros(ds, b, r, j) ==
    LET cur == r * 10 + DigitAt(ds, j)
    IN  IF cur \div b # 0 THEN 0
        ELSE 1 + LeadingZeros(ds, b, cur % b, j + 1)

\* ip.ds plus one unit in the last place of ds
RECURSIVE IncDigits(_, _)
IncDigits(ip, ds) ==
    IF ds = <<>> THEN Dec(ip + 1, <<>>)
    ELSE IF ds[Len(ds)] < 9
    THEN Dec(ip, [ds EXCEPT ![Len(ds)] = @ + 1])
    ELSE LET up == IncDigits(ip, SubSeq(ds, 1, Len(ds) - 1))
         IN  Dec(up.ip, Append(up.fr, 0))

\* x > n for a decimal x and an integer n
DecGreater(x, n) == x.ip > n \/ (x.ip = n /\ ~ZeroFrom(x.fr, 1))

\* float(x) * f > n: the exact product x * f[1] / f[2] against an integer
ProductGreater(x, f, n) == DecGreater(DecTimes(x, f[1]), n * f[2])

\* The product x * f[1] / f[2] cut to StrDigits significant digits:
\*   lo, hi   the StrDigits-digit decimals just below and just above it
\*   how      "exact" (the product is lo), "down" (lo is nearest), "up"
\*            (hi is nearest) or "tie" (the product is halfway)
ProductDigits(x, f) ==
    LET num == DecTimes(x, f[1])
        b == f[2]
        q0 == num.ip \div b
        r0 == num.ip % b
        zero == r0 = 0 /\ ZeroFrom(num.fr, 1)
        k == IF q0 > 0 THEN StrDigits - NumDigits(q0)
             ELSE IF zero THEN 0
             ELSE LeadingZeros(num.fr, b, r0, 1) + StrDigits
        kept == DivDigits(num.fr, b, r0, 1, k)
        next == kept.rem * 10 + DigitAt(num.fr, k + 1)
        d == next \div b
        sticky == next % b # 0 \/ ~ZeroFrom(num.fr, k + 2)
        lo == Dec(q0, TrimZeros(kept.digits))
        up == IncDigits(q0, kept.digits)
    IN  [lo |-> lo,
         hi |-> Dec(up.ip, TrimZeros(up.fr)),
         how |-> IF d = 0 /\ ~sticky THEN "exact"
                 ELSE IF d < 5 THEN "down"
                 ELSE IF d = 5 /\ ~sticky THEN "tie"
                 ELSE "up"]

\* str(float(x) * f) as decimals: the nearest StrDigits-digit decimal; at
\* an exact tie the binary rounding of the float decides, so both neighbours
StrOfProduct(x, f) ==
    LET p == ProductDigits(x, f)
    IN  CASE p.how \in {"exact", "down"} -> {p.lo}
          [] p.how = "up" -> {p.hi}
          [] OTHER -> {p.lo, p.hi}

\* the product has no more than StrDigits significant digits
ProductIsExact(x, f) == ProductDigits(x, f).how = "exact"

-----------------------------------------------------------------------------
(* Virtual raster trees.                                                   *)
(*                                                                         *)
(* A tree is a record                                                      *)
(*   XSize, YSize   raster size                                            *)
(*   geoTransform   the geotransform (an opaque value)                     *)
(*   projection     the geotransform's projection, "" when there is none   *)
(*   gcps           the ground control points, a sequence of               *)
(*                  [Id, Pixel, Line] with Pixel and Line decimal numbers  *)
(*   gcpProjection  the projection of the ground control points            *)
(*   bands          the band descriptors in band order; band k of the tree *)
(*                  is bands[k]                                            *)
(*   metadata       the metadata of the dataset, a dict                    *)
(* A band descriptor is a record                                           *)
(*   SourceFilename the tree or file that backs the band                   *)
(*   SourceBand     the band of that source                                *)
(*   metadata       the band's metadata, a dict                            *)
(*   tag            the XML tag of its source element                      *)
(***************************************************************************)

BandNames == {"A", "B"}

\* what a SourceFilename names: a file on disk (made == 0) or a tree held
\* in memory, told apart by its kind and by the ordinal of the band it was
\* made for
Source(kind, made) == [kind |-> kind, made |-> made]

Band(src, n, md, tag) ==
    [SourceFilename |-> src, SourceBand |-> n, metadata |-> md, tag |-> tag]

RasterCount(t) == Len(t.bands)

\* VRT.copy(): a structural clone of the tree
VRT_copy(t) == t

\* VRT._create_band(src, dst) as a mutation of tree t: the descriptor with
\* the given source and metadata is appended after the existing bands
VRT_create_band(t, src, dst) ==
    [t EXCEPT !.bands =
        Append(@, Band(src.SourceFilename, src.SourceBand, dst, "ComplexSource"))]

\* the band name VRT._create_band returns: the BandName it was given
VRT_create_band_name(dst) ==
    IF HasKey(dst, "BandName") THEN Some(Get(dst, "BandName")) ELSE None

-----------------------------------------------------------------------------
(* Nansat.bands and Nansat._get_band_number.                               *)

\* Nansat.get_metadata(bandID=n) for a band number n of the working tree
BandMetadata(t, n) == t.bands[n].metadata

\* Nansat.bands(): band number -> metadata of that band
bands(t) == [n \in 1..RasterCount(t) |-> BandMetadata(t, n)]

\* a variant of the loop that stops at the first match
RECURSIVE ScanBandsFirst(_, _, _, _)
ScanBandsFirst(bandsMeta, bandID, b, bandNumber) ==
    IF b > Len(bandsMeta)
    THEN [err |-> "none", n |-> bandNumber]
    ELSE IF ~HasKey(bandsMeta[b], "BandName")
    THEN [err |-> "KeyError", n |-> 0]
    ELSE IF bandID = Get(bandsMeta[b], "BandName")
    THEN [err |-> "none", n |-> b]
    ELSE ScanBandsFirst(bandsMeta, bandID, b + 1, bandNumber)

\* the loop of _get_band_number over bandsMeta, from band b on, with the
\* band number found so far; bandsMeta[b]['BandName'] raises KeyError on a
\* band that has no BandName
RECURSIVE ScanBands(_, _, _, _)
ScanBands(bandsMeta, bandID, b, bandNumber) ==
    IF b > Len(bandsMeta)
    THEN [err |-> "none", n |-> bandNumber]
    ELSE IF ~HasKey(bandsMeta[b], "BandName")
    THEN [err |-> "KeyError", n |-> 0]
    ELSE IF bandID = Get(bandsMeta[b], "BandName")
    THEN ScanBands(bandsMeta, bandID, b + 1, b)
    ELSE ScanBands(bandsMeta, bandID, b + 1, bandNumber)

\* _get_band_number(bandID) on working tree t: [err, n]; n is the band
\* number returned when err = "none"
GetBandNumber(t, bandID) ==
    LET found == IF bandID.isStr
                 THEN ScanBands(bands(t), bandID.s, 1, 0)
                 ELSE IF bandID.i >= 1 /\ bandID.i <= RasterCount(t)
                 THEN [err |-> "none", n |-> bandID.i]
                 ELSE [err |-> "none", n |-> 0]
    IN  IF found.err # "none" THEN found
        ELSE IF found.n = 0 THEN [err |-> "OptionError", n |-> 0]
        ELSE found

-----------------------------------------------------------------------------
(* The trees the environment supplies.                                     *)

GCP(id, px, ln) == [Id |-> id, Pixel |-> px, Line |-> ln]

Tree(x, y, gt, srs, gcps, gcpsrs, bs) ==
    [XSize |-> x, YSize |-> y, geoTransform |-> gt, projection |-> srs,
     gcps |-> gcps, gcpProjection |-> gcpsrs, bands |-> bs,
     metadata |-> EmptyDict]

\* a mapper's tree of a 4x4 file with a geotransform and one band A
MapperTree ==
    Tree(4, 4, "gt0", "wgs84", <<>>, "",
         <<Band(Source("file", 0), 1, {<<"BandName", "A">>}, "ComplexSource")>>)

\* the tree _get_mapper builds when no mapper fits, of a 3x3 file with
\* GCPs and one raster band: _create_band is called without metadata
GenericTree ==
    VRT_create_band(
        Tree(3, 3, "none", "",
             <<GCP(1, DecOfInt(1), DecOfInt(2)), GCP(2, DecOfInt(3), DecOfInt(3))>>,
             "wgs84", <<>>),
        [SourceFilename |-> Source("file", 0), SourceBand |-> 1], EmptyDict)

\* the tree of an object made from a domain alone: no bands
DomainTree == Tree(4, 4, "gt0", "wgs84", <<>>, "", <<>>)

InitTrees == {MapperTree, GenericTree, DomainTree}

\* the destination domains of reproject
TargetGrid == Tree(2, 2, "gt1", "wgs84", <<>>, "", <<>>)
TargetGCPs ==
    Tree(2, 3, "none", "",
         <<GCP(1, DecOfInt(0), DecOfInt(0)), GCP(2, DecOfInt(2), DecOfInt(3))>>,
         "wgs84", <<>>)
TargetNoSRS == Tree(2, 2, "gt1", "", <<>>, "", <<>>)
TargetGCPsNoSRS ==
    Tree(2, 3, "gt1", "wgs84",
         <<GCP(1, DecOfInt(0), DecOfInt(0)), GCP(2, DecOfInt(2), DecOfInt(3))>>,
         "", <<>>)
Targets == {TargetGrid, TargetGCPs, TargetNoSRS, TargetGCPsNoSRS}

\* the tree of the file add_band(fileName=...) opens, and the tree a
\* caller passes as add_band(vrt=...)
AddedFileTree ==
    Tree(2, 2, "gt1", "wgs84", <<>>, "",
         <<Band(Source("file", 0), 1, {<<"BandName", "A">>}, "ComplexSource")>>)
CallerTree ==
    Tree(4, 4, "gt0", "wgs84", <<>>, "",
         <<Band(Source("file", 0), 1, {<<"BandName", "B">>}, "ComplexSource")>>)

-----------------------------------------------------------------------------
(* Nansat.reproject.                                                       *)

\* what the bands of a tree warped from t read: the whole grid of t
WarpedSource(t) ==
    [kind |-> "warped", made |-> 0, XSize |-> t.XSize, YSize |-> t.YSize]

\* VRT.create_warped_vrt: the tree warped from t onto the given grid; it
\* has the grid's size, geotransform and GCPs and every band of t
VRT_create_warped_vrt(t, dstSRS, dstGCPs, xSize, ySize, geoTransform) ==
    IF dstSRS = ""
    THEN [err |-> "ProjectionError", tree |-> t]
    ELSE [err |-> "none",
          tree |-> [Tree(xSize, ySize, geoTransform, dstSRS, dstGCPs,
                         IF Len(dstGCPs) > 0 THEN dstSRS ELSE "",
                         [k \in 1..RasterCount(t) |->
                             Band(WarpedSource(t), k,
                                  t.bands[k].metadata, "WarpedSource")])
                      EXCEPT !.metadata = t.metadata]]

\* a reset that leaves the working tree as it is
KeepWorking(rawT, vrtT) == vrtT

\* self.vrt = self.raw.copy(): the working tree after a reset
ResetWorking(rawT, vrtT) == VRT_copy(rawT)

\* a destination projection that is never taken from the GCPs
DstSRSOfGeoTransform(dst) == dst.projection

\* the projection of the destination: that of its GCPs when it has GCPs
DstSRS(dst) ==
    IF Len(dst.gcps) > 0 THEN dst.gcpProjection ELSE dst.projection

\* a warp of the working tree
WarpedFromWorking(rawT, vrtT) == vrtT

\* the tree reproject warps: self.raw
WarpedFrom(rawT, vrtT) == rawT

\* reproject(dstDomain) on (raw, vrt): [err, vrt]; dstDomain is None or
\* Some(tree of the destination domain)
Reproject(rawT, vrtT, dstDomain) ==
    IF IsNone(dstDomain)
    THEN [err |-> "none", vrt |-> ResetWorking(rawT, vrtT)]
    ELSE LET dst == Val(dstDomain)
             dstGCPs == dst.gcps
             dstSRS == DstSRS(dst)
             warped == VRT_create_warped_vrt(WarpedFrom(rawT, vrtT), dstSRS,
                           dstGCPs, dst.XSize, dst.YSize, dst.geoTransform)
         IN  IF warped.err # "none"
             THEN [err |-> warped.err, vrt |-> vrtT]
             ELSE [err |-> "none", vrt |-> warped.tree]

-----------------------------------------------------------------------------
(* Nansat.resize.                                                          *)

\* resize() is the reset call when factor == 1 and neither width nor
\* height is given
IsResetCall(factor, width, height) ==
    factor[1] = factor[2] /\ IsNone(width) /\ IsNone(height)

\* the factor resize works with: height overrides width overrides factor
ResizeFactor(t, factor, width, height) ==
    LET f1 == IF ~IsNone(width) THEN Rat(Val(width), t.XSize) ELSE factor
    IN  IF ~IsNone(height) THEN Rat(Val(height), t.YSize) ELSE f1

\* a check that takes "nearest" for the second method
MethodAcceptedNearest(method) == method = "average" \/ method = "nearest"

\* the methods resize does not reject
MethodAccepted(method) == method = "average" \/ method = "subsample"

\* the new rasterXSize / rasterYSize
ResizeSize(n, f) == IntOfProduct(n, f)

\* the source tag of a band after resize
ResizeTag(tag, method) ==
    IF method = "average" /\ tag \in {"ComplexSource", "SimpleSource"}
    THEN "AveragedSource"
    ELSE tag

\* the texts a GCP coordinate c may be rewritten to, for the new size n
ResizeCoord(c, f, n) ==
    IF ProductGreater(c, f, n) THEN {DecOfInt(n)} ELSE StrOfProduct(c, f)

\* the GCP lists resize may write, from GCP i on
RECURSIVE ResizeGCPs(_, _, _, _, _)
ResizeGCPs(gcps, f, xs, ys, i) ==
    IF i > Len(gcps) THEN {<<>>}
    ELSE {<<GCP(gcps[i].Id, px, ln)>> \o rest :
            px \in ResizeCoord(gcps[i].Pixel, f, xs),
            ln \in ResizeCoord(gcps[i].Line, f, ys),
            rest \in ResizeGCPs(gcps, f, xs, ys, i + 1)}

\* the document written into the raw tree instead of the working tree
WriteToRaw(rawT, vrtT, doc) == [raw |-> doc, vrt |-> vrtT]

\* self.vrt.write_xml(doc): the trees after the edited document is written
WriteXML(rawT, vrtT, doc) == [raw |-> rawT, vrt |-> doc]

\* the working trees a resize that is not a reset may write
Resized(t, f, method) ==
    LET xs == ResizeSize(t.XSize, f)
        ys == ResizeSize(t.YSize, f)
    IN  {[t EXCEPT !.XSize = xs, !.YSize = ys, !.gcps = g,
                   !.bands = [k \in 1..Len(t.bands) |->
                                [t.bands[k] EXCEPT !.tag = ResizeTag(@, method)]]] :
            g \in ResizeGCPs(t.gcps, f, xs, ys, 1)}

-----------------------------------------------------------------------------
(* Nansat.add_band.                                                        *)

\* Domain.shape(): (rows, columns) of the working tree
shape(t) == <<t.YSize, t.XSize>>

\* the new band appended to the working tree as it is, without a copy of raw
AppendToWorking(raw2, vrtT) ==
    [vrtT EXCEPT !.bands = Append(@, raw2.bands[Len(raw2.bands)])]

\* self.vrt = self.raw.copy() at the end of add_band
RebuildWorking(raw2, vrtT) == VRT_copy(raw2)

\* add_band on (raw, vrt, addedBands): [err, raw, vrt, addedBands].
\* fileName, vrtArg and array are None or Some(..); array is Some(shape).
AddBand(rawT, vrtT, added, fileName, vrtArg, bandID, array, parameters) ==
    LET new == RasterCount(rawT) + 1
        fail(e) == [err |-> e, raw |-> rawT, vrt |-> vrtT, addedBands |-> added]
        \* n = Nansat(fileName); n.reproject(self)
        n == Reproject(AddedFileTree, VRT_copy(AddedFileTree), Some(vrtT))
        nBand == GetBandNumber(n.vrt, bandID)
        fromFile == ~IsNone(fileName)
        fileErr == IF ~fromFile THEN "none"
                   ELSE IF n.err # "none" THEN n.err
                   ELSE nBand.err
        fromVRT == ~IsNone(vrtArg)
        vrtErr == IF ~fromVRT THEN "none"
                  ELSE IF bandID.isStr THEN "TypeError"
                  ELSE IF bandID.i < 1 \/ bandID.i > RasterCount(Val(vrtArg))
                  THEN "AttributeError"
                  ELSE "none"
        fromArray == ~IsNone(array)
        vrt2add == IF fromArray
                   THEN IF Val(array) = shape(vrtT)
                        THEN Some(Source("array", new))
                        ELSE Some(Source("resized", new))
                   ELSE IF fromVRT THEN Some(Source("vrt", 0))
                   ELSE IF fromFile THEN Some(Source("warped", new))
                   ELSE None
        bandNumber == IF fromArray THEN 1
                      ELSE IF fromVRT THEN bandID.i
                      ELSE nBand.n
        inherited == IF fromVRT THEN Val(vrtArg).bands[bandID.i].metadata
                     ELSE IF fromFile THEN BandMetadata(n.vrt, nBand.n)
                     ELSE EmptyDict
        p2add == Update(inherited, parameters)
        bandName == VRT_create_band_name(p2add)
        raw2 == VRT_create_band(rawT,
                    [SourceFilename |-> Val(vrt2add), SourceBand |-> bandNumber],
                    p2add)
    IN  IF fileErr # "none" THEN fail(fileErr)
        ELSE IF vrtErr # "none" THEN fail(vrtErr)
        ELSE IF IsNone(vrt2add) THEN fail("AttributeError")
        ELSE [err |-> "none",
              raw |-> raw2,
              vrt |-> RebuildWorking(raw2, vrtT),
              addedBands |-> Put(added, bandName, Val(vrt2add))]

-----------------------------------------------------------------------------
(* Nansat.mosaic: the numbers of its arrays.                               *)
(*                                                                         *)
(* The arrays of mosaic are float arrays.  A pixel value is a fraction     *)
(* <<n, d>> in lowest terms with d > 0, or <<0, 0>> (nan), <<1, 0>> (inf)  *)
(* or <<-1, 0>> (-inf), which numpy's division by zero produces.           *)
(***************************************************************************)

RECURSIVE GCD(_, _)
GCD(a, b) == IF b = 0 THEN a ELSE GCD(b, a % b)

Abs(n) == IF n < 0 THEN -n ELSE n
Sgn(n) == IF n < 0 THEN -1 ELSE IF n > 0 THEN 1 ELSE 0

NaN == <<0, 0>>
Num(n) == <<n, 1>>
IsFinite(a) == a[2] # 0

\* n / d as a pixel value
Frac(n, d) ==
    IF d = 0 THEN <<Sgn(n), 0>>
    ELSE LET g == GCD(Abs(n), Abs(d))
         IN  <<(Sgn(d) * n) \div g, Abs(d) \div g>>

FAdd(a, b) ==
    IF IsFinite(a) /\ IsFinite(b)
    THEN Frac(a[1] * b[2] + b[1] * a[2], a[2] * b[2])
    ELSE IF a = NaN \/ b = NaN THEN NaN
    ELSE IF IsFinite(a) THEN b
    ELSE IF IsFinite(b) \/ a = b THEN a
    ELSE NaN

FSub(a, b) == FAdd(a, <<-b[1], b[2]>>)

FMul(a, b) ==
    IF IsFinite(a) /\ IsFinite(b) THEN Frac(a[1] * b[1], a[2] * b[2])
    ELSE <<Sgn(a[1] * b[1]), 0>>

\* a / b for a finite b
FDiv(a, b) ==
    IF IsFinite(a) THEN Frac(a[1] * b[2], a[2] * b[1])
    ELSE IF b[1] < 0 THEN <<-a[1], 0>> ELSE a

\* np.square
FSquare(a) == FMul(a, a)

-----------------------------------------------------------------------------
(* Nansat.mosaic: its input files.                                         *)
(*                                                                         *)
(* An input file is a record                                               *)
(*   opens     Nansat(f) can be constructed from it                        *)
(*   names     the BandNames of its bands, in band order                   *)
(*   readable  its bands can be read once it is reprojected                *)
(*   mask      the pattern of its band 'mask' on the destination grid      *)
(*   ramp, c   its other bands on the destination grid: the constant c,    *)
(*             or a ramp over the grid                                     *)
(*   dtype     the data type of the arrays read from its other bands       *)
(***************************************************************************)

File(opens, names, readable, mask, ramp, c, dtype) ==
    [opens |-> opens, names |-> names, readable |-> readable, mask |-> mask,
     ramp |-> ramp, c |-> c, dtype |-> dtype]

\* the mask of file f at row r, column col of the destination grid, coded
\* 0: nodata, 1: clouds, 2: land, 128: values
MaskAt(f, r, col) ==
    CASE f.mask = "valid" -> 128
      [] f.mask = "mixed" -> <<0, 1, 2, 128>>[((r + col) % 4) + 1]
      [] f.mask = "shifted" -> <<128, 2, 0, 1>>[((r + col) % 4) + 1]
      [] OTHER -> IF r = 1 THEN 1 ELSE 2

\* the value of a band of file f at row r, column col of the destination grid
DataAt(f, r, col) == IF f.ramp THEN r + 2 * col ELSE f.c

FileConst == File(TRUE, <<"mask", "A", "B">>, TRUE, "valid", FALSE, 3, "float64")
FileMixed == File(TRUE, <<"A", "mask", "B">>, TRUE, "mixed", TRUE, 0, "float64")
FileShifted == File(TRUE, <<"mask", "A">>, TRUE, "shifted", FALSE, 3, "float64")
FileCloud == File(TRUE, <<"mask", "A">>, TRUE, "cloud", FALSE, 5, "float64")
FileNoMask == File(TRUE, <<"A">>, TRUE, "valid", FALSE, 3, "float64")
FileMissing == File(FALSE, <<>>, FALSE, "valid", FALSE, 0, "float64")
FileUnreadable == File(TRUE, <<"mask", "A">>, FALSE, "valid", FALSE, 7, "float64")
FileByte == File(TRUE, <<"mask", "A", "B">>, TRUE, "valid", FALSE, 20, "uint8")
FileNoBand == File(TRUE, <<"mask">>, TRUE, "valid", FALSE, 0, "float64")

\* the tree a mapper builds of file f
FileTree(f) ==
    Tree(2, 2, "gt1", "wgs84", <<>>, "",
         [k \in 1..Len(f.names) |->
            Band(Source("file", 0), k, {<<"BandName", f.names[k]>>},
                 "ComplexSource")])

\* the pixels of an array of the given shape (rows, columns)
Pixels(shp) == (1..shp[1]) \X (1..shp[2])

-----------------------------------------------------------------------------
(* Nansat.mosaic.                                                          *)

\* cntMatTmp[mask == 128] = 1
CountsAsValid(mk) == mk = 128

\* a value that is added whatever the mask is
UnmaskedValue(v, mk) == v

\* a[mask < 128] = 0
MaskedValue(v, mk) == IF mk < 128 THEN 0 ELSE v

\* np.square(a) of an array of the given data type: it has the type of a
NpSquare(v, dtype) == IF dtype = "uint8" THEN (v * v) % 256 ELSE v * v

\* a mask that keeps the layer written last
MaskLast(a, b) == a

\* maskMat.max(0) of two layers
MaskMax(a, b) == IF a > b THEN a ELSE b

\* n.add_band(mask, parameters={'BandName': 'mask'}) for a file without a
\* band 'mask': the array is bound to fileName, the first parameter of
\* add_band, and Nansat(fileName) fails in os.path.basename
AddSynthesizedMask(f) == "AttributeError"

\* the matrices of mosaic before the first file, for the given shape and
\* band names:
\*   cnt, mask0, mask1   cntMat, maskMat[0], maskMat[1]
\*   sum, sumSq          avgMat[b], stdMat[b] in the loop over the files
\*   processed           the files (by position) whose data was added
MosaicZeros(shp, bandNames) ==
    LET Z == [p \in Pixels(shp) |-> 0]
        B == {bandNames[k] : k \in 1..Len(bandNames)}
    IN  [err |-> "none", cnt |-> Z, mask0 |-> Z, mask1 |-> Z,
         sum |-> [b \in B |-> Z], sumSq |-> [b \in B |-> Z],
         processed |-> <<>>]

\* one pass of the loop over the files: file f at position i
MosaicFile(vrtT, f, i, bandNames, acc) ==
    LET fail(e) == [acc EXCEPT !.err = e]
        tree == FileTree(f)
        \* n.reproject(self)
        n == Reproject(tree, VRT_copy(tree), Some(vrtT))
        maskBand == GetBandNumber(n.vrt, StrID("mask"))
        missing == {k \in 1..Len(bandNames) :
                      GetBandNumber(n.vrt, StrID(bandNames[k])).err # "none"}
        first == CHOOSE k \in missing : \A j \in missing : k <= j
        M(p) == MaskAt(f, p[1], p[2])
        A(p) == MaskedValue(DataAt(f, p[1], p[2]), M(p))
    IN  IF ~f.opens THEN fail("AttributeError")
        ELSE IF GetBandNumber(tree, StrID("mask")).err # "none"
        THEN fail(AddSynthesizedMask(f))
        ELSE IF n.err # "none" THEN fail(n.err)
        ELSE IF ~f.readable \/ maskBand.err # "none" THEN acc
        ELSE IF missing # {}
        THEN fail(GetBandNumber(n.vrt, StrID(bandNames[first])).err)
        ELSE [acc EXCEPT
                !.cnt = [p \in DOMAIN @ |->
                           @[p] + IF CountsAsValid(M(p)) THEN 1 ELSE 0],
                !.mask0 = [p \in DOMAIN @ |-> M(p)],
                !.mask1 = [p \in DOMAIN @ |-> MaskMax(M(p), @[p])],
                !.sum = [b \in DOMAIN @ |->
                           [p \in DOMAIN @[b] |-> @[b][p] + A(p)]],
                !.sumSq = [b \in DOMAIN @ |->
                           [p \in DOMAIN @[b] |->
                              @[b][p] + NpSquare(A(p), f.dtype)]],
                !.processed = Append(@, i)]

\* the loop over the files, from file i on; an exception ends it. (The
\* matrices after file i are bound as a value, so that they are computed
\* once.)
RECURSIVE MosaicLoop(_, _, _, _, _)
MosaicLoop(vrtT, files, i, bandNames, acc) ==
    IF i > Len(files) \/ acc.err # "none" THEN acc
    ELSE CHOOSE r \in {MosaicLoop(vrtT, files, i + 1, bandNames, a) :
                          a \in {MosaicFile(vrtT, files[i], i, bandNames, acc)}} :
            TRUE

\* avg = avgMat[b] / cntMat
MosaicAvg(sum, cnt) == FDiv(Num(sum), Num(cnt))

\* np.square((stdMat[b] - 2 * avg * avgMat[b] + np.square(avg)) / cntMat)
MosaicStd(sumSq, sum, cnt) ==
    LET avg == MosaicAvg(sum, cnt)
    IN  FSquare(FDiv(FAdd(FSub(Num(sumSq), FMul(FMul(Num(2), avg), Num(sum))),
                          FSquare(avg)),
                     Num(cnt)))

\* the names of the mean and std bands, in the order of the band names
RECURSIVE MosaicMeanStdNames(_)
MosaicMeanStdNames(bandNames) ==
    IF bandNames = <<>> THEN <<>>
    ELSE <<bandNames[1], bandNames[1] \o "_std">>
         \o MosaicMeanStdNames(Tail(bandNames))

\* band names in an order that puts the mask last
MosaicBandNamesMaskLast(bandNames) ==
    MosaicMeanStdNames(bandNames) \o <<"mask">>

\* the BandNames of the add_band calls that end mosaic, in call order
MosaicBandNames(bandNames) == <<"mask">> \o MosaicMeanStdNames(bandNames)

\* the add_band calls that end mosaic, from name i on; every array has the
\* shape mosaic began with
RECURSIVE MosaicAddBands(_, _, _, _)
MosaicAddBands(s, shp, names, i) ==
    IF i > Len(names) THEN s
    ELSE CHOOSE r \in
            {MosaicAddBands(s2, shp, names, i + 1) :
               s2 \in {AddBand(s.raw, s.vrt, s.addedBands, None, None,
                               IntID(1), Some(shp),
                               {<<"BandName", names[i]>>})}} : TRUE

\* mosaic(files, bands) on (raw, vrt, addedBands): the outcome, the object
\* after the call and, when the call returns, its matrices:
\*   cnt, mask   cntMat and the combined mask
\*   sum, sumSq  per band, the sums the loop over the files ends with
\*   avg, std    per band, the arrays added as <name> and <name>_std
\*   processed   the files (by position) whose data was added
Mosaic(rawT, vrtT, added, files, bandNames) ==
    LET dstShape == shape(vrtT)
        P == Pixels(dstShape)
        self0 == [err |-> "none", raw |-> rawT, vrt |-> vrtT,
                  addedBands |-> added]
        \* the outcome for the matrices acc the loop ends with
        Averaged(acc) ==
            IF acc.err # "none"
            THEN [err |-> acc.err, raw |-> rawT, vrt |-> vrtT,
                  addedBands |-> added]
            ELSE LET s == MosaicAddBands(self0, dstShape,
                                         MosaicBandNames(bandNames), 1)
                     B == DOMAIN acc.sum
                 IN  [err |-> "none", raw |-> s.raw, vrt |-> s.vrt,
                      addedBands |-> s.addedBands,
                      cnt |-> acc.cnt,
                      mask |-> [p \in P |->
                                  MaskMax(acc.mask0[p], acc.mask1[p])],
                      sum |-> acc.sum, sumSq |-> acc.sumSq,
                      avg |-> [b \in B |-> [p \in P |->
                                 MosaicAvg(acc.sum[b][p], acc.cnt[p])]],
                      std |-> [b \in B |-> [p \in P |->
                                 MosaicStd(acc.sumSq[b][p], acc.sum[b][p],
                                           acc.cnt[p])]],
                      processed |-> acc.processed]
    IN  CHOOSE r \in
           {Averaged(acc) :
              acc \in {MosaicLoop(vrtT, files, 1, bandNames,
                                  MosaicZeros(dstShape, bandNames))}} : TRUE

-----------------------------------------------------------------------------
(* Nansat.export: the tree handed to the netCDF driver.                    *)
(*                                                                         *)
(* The metadata GDAL returns for a band holds, next to the band's own      *)
(* keys, the pair SourceFilename / SourceBand that VRT._create_band stored *)
(* with it. Here such a dict is a record                                   *)
(*   dict   the band's own keys                                            *)
(*   src    None, or Some of the (SourceFilename, SourceBand) pair         *)
(***************************************************************************)

\* self.vrt.fileName: the file of the working tree
VRT_fileName(t) ==
    [kind |-> "working", made |-> 0, XSize |-> t.XSize, YSize |-> t.YSize]

\* band.GetMetadata() of band n of tree t
GetMetadata(t, n) ==
    [dict |-> BandMetadata(t, n),
     src |-> Some(<<t.bands[n].SourceFilename, t.bands[n].SourceBand>>)]

\* Nansat.bands() as export uses it: band number -> the dict of that band
AllBands(t) == [n \in 1..RasterCount(t) |-> GetMetadata(t, n)]

\* VRT(gdalDataset=self.vrt.dataset, ...): a tree without bands that has
\* the geometry of t
VRT_of_dataset(t) == [t EXCEPT !.bands = <<>>]

\* what VRT._create_band(src, dst) leaves in the dict dst it was handed:
\* the pair of the source is attached to it
VRT_create_band_dst(src, dst) ==
    [dst EXCEPT !.src = Some(<<src.SourceFilename, src.SourceBand>>)]

\* the loop over the band identifiers of export, from identifier i on:
\* allBands is the dict of dicts made before the loop, exportVRT the tree
\* built so far
RECURSIVE ExportBands(_, _, _, _, _)
ExportBands(vrtT, allBands, ids, i, exportVRT) ==
    IF i > Len(ids) THEN [err |-> "none", tree |-> exportVRT]
    ELSE LET r == GetBandNumber(vrtT, ids[i])
             bandMetadata == allBands[r.n]
             \* after the two pops
             popped == [bandMetadata EXCEPT !.src = None]
             src == [SourceFilename |-> VRT_fileName(vrtT),
                     SourceBand |-> r.n]
         IN  IF r.err # "none" THEN [err |-> r.err, tree |-> exportVRT]
             ELSE IF IsNone(bandMetadata.src)
             THEN [err |-> "KeyError", tree |-> exportVRT]
             ELSE ExportBands(
                      vrtT,
                      [allBands EXCEPT ![r.n] = VRT_create_band_dst(src, popped)],
                      ids, i + 1,
                      VRT_create_band(exportVRT, src, popped.dict))

\* for rmMeta in rmMetadata: bandMetadata.pop(rmMeta), a missing key is
\* logged
RemoveKeys(d, rmMetadata) ==
    {q \in d : \A k \in 1..Len(rmMetadata) : q[1] # rmMetadata[k]}

\* the metadata export sets on a band: NETCDF_VARNAME is the BandName, when
\* there is one, and the unwanted keys are removed
ExportBandMetadata(d, rmMetadata) ==
    RemoveKeys(IF HasKey(d, "BandName")
               THEN Put(d, "NETCDF_VARNAME", Get(d, "BandName"))
               ELSE d,
               rmMetadata)

\* export(fileName, bands, rmMetadata) on the working tree: the outcome
\* and, when the call returns, the tree handed to the driver and its global
\* metadata. bandsArg is None or Some(sequence of band identifiers).
Export(vrtT, bandsArg, rmMetadata) ==
    LET built == IF IsNone(bandsArg)
                 THEN [err |-> "none", tree |-> VRT_copy(vrtT)]
                 ELSE ExportBands(vrtT, AllBands(vrtT), Val(bandsArg), 1,
                                  VRT_of_dataset(vrtT))
        t == built.tree
        glob == RemoveKeys(
                    Update(t.metadata,
                           {<<"NANSAT_Projection", vrtT.projection>>,
                            <<"NANSAT_GeoTransform", vrtT.geoTransform>>}),
                    rmMetadata)
    IN  IF built.err # "none" THEN [err |-> built.err]
        ELSE [err |-> "none",
              tree |-> [t EXCEPT !.bands =
                          [k \in 1..Len(t.bands) |->
                             [t.bands[k] EXCEPT !.metadata =
                                ExportBandMetadata(@, rmMetadata)]],
                          !.metadata = glob],
              metadata |-> glob]

-----------------------------------------------------------------------------
(* Nansat.__init__ from a file, and Nansat._get_mapper.                    *)
(*                                                                         *)
(* A file to open is a record                                              *)
(*   opens        gdal.Open(fileName) returns a dataset                    *)
(*   RasterCount  the number of raster bands of that dataset               *)
(*   fits         the mapper modules that can be imported and whose        *)
(*                Mapper(fileName, gdalDataset, metadata) returns a tree   *)
(***************************************************************************)

DataFile(opens, count, fits) ==
    [opens |-> opens, RasterCount |-> count, fits |-> fits]

\* an entry of self.mapperList: a module name and its extension
MapperEntry(base, ext) == [base |-> base, ext |-> ext]

\* self.mapperList as __init__ sets it
mapperList ==
    <<MapperEntry("mapper_ASAR", ".py"), MapperEntry("mapper_hirlam", ".py"),
      MapperEntry("mapper_merisL1", ".py"), MapperEntry("mapper_merisL2", ".py"),
      MapperEntry("mapper_modisL1", ".py"), MapperEntry("mapper_ncep", ".py"),
      MapperEntry("mapper_radarsat2", ".py"), MapperEntry("mapper_MOD44W", ".py"),
      MapperEntry("mapper_modisL2NRT", ".py"),
      MapperEntry("mapper_geostationary", ""),
      MapperEntry("mapper_landsat", ".py"), MapperEntry("mapper_NetCDF", ".py"),
      MapperEntry("mapper_opendap", ".py")>>

\* iMapper.replace('.py', '')
ReplacePy(e) == e.base

\* a list that has the given mapper after the others
MapperListNamedLast(mapperName) ==
    mapperList \o <<MapperEntry("mapper_" \o mapperName, "")>>

\* self.mapperList = ['mapper_' + mapperName] + self.mapperList
MapperListNamedFirst(mapperName) ==
    <<MapperEntry("mapper_" \o mapperName, "")>> \o mapperList

\* the tree mapper module m makes of a file: the mapper's own band list
MapperTreeOf(m) ==
    Tree(4, 4, "gt0", "wgs84", <<>>, "",
         <<Band(Source("file", 0), 1,
                {<<"BandName", "A">>, <<"mapper", m>>}, "ComplexSource")>>)

\* the tree made when no mapper fits, for bands iBand+1 on of a file with
\* count raster bands: VRT(gdalDataset=gdalDataset), then one _create_band
\* without metadata per raster band
RECURSIVE GenericBands(_, _, _)
GenericBands(t, iBand, count) ==
    IF iBand >= count THEN t
    ELSE GenericBands(
             VRT_create_band(t, [SourceFilename |-> Source("file", 0),
                                 SourceBand |-> iBand + 1], EmptyDict),
             iBand + 1, count)

\* the loop over self.mapperList from entry i on: the tree of the first
\* mapper that does not raise, and the modules tried
RECURSIVE TryMappers(_, _, _, _)
TryMappers(list, f, i, tried) ==
    IF i > Len(list) THEN [tmpVRT |-> None, tried |-> tried]
    ELSE LET iMapper == ReplacePy(list[i])
         IN  IF iMapper \in f.fits
             THEN [tmpVRT |-> Some(MapperTreeOf(iMapper)),
                   tried |-> Append(tried, iMapper)]
             ELSE TryMappers(list, f, i + 1, Append(tried, iMapper))

\* _get_mapper(mapperName) for file f: [tmpVRT, tried]; tmpVRT is None when
\* no mapper fits and gdal.Open returned None
GetMapper(f, mapperName) ==
    LET r == TryMappers(MapperListNamedFirst(mapperName), f, 1, <<>>)
    IN  IF IsNone(r.tmpVRT) /\ f.opens
        THEN [tmpVRT |-> Some(GenericBands(
                              [GenericTree EXCEPT !.bands = <<>>], 0,
                              f.RasterCount)),
              tried |-> r.tried]
        ELSE r

\* what self.raw.copy() raises when self.raw is None
CopyOfNone == "AttributeError"

\* Nansat(fileName, mapperName): the outcome, the modules tried and, when
\* the constructor returns, the two trees of the new object
Construct(f, mapperName) ==
    LET r == GetMapper(f, mapperName)
    IN  IF IsNone(r.tmpVRT)
        THEN [err |-> CopyOfNone, tried |-> r.tried]
        ELSE [err |-> "none", tried |-> r.tried,
              raw |-> Val(r.tmpVRT), vrt |-> VRT_copy(Val(r.tmpVRT))]

-----------------------------------------------------------------------------
(* Nansat.set_metadata.                                                    *)

\* the key argument: a string, or a dict of names and values
KeyStr(s) == [isDict |-> FALSE, s |-> s, d |-> EmptyDict]
KeyDict(d) == [isDict |-> TRUE, s |-> "", d |-> d]

\* the items set_metadata sets: those of the dict, or the pair (key, value)
MetadataItems(key, value) ==
    IF key.isDict THEN key.d ELSE {<<key.s, value>>}

\* metaReceiver.SetMetadataItem(k, v) for every item, on the dataset of
\* tree t (band 0) or on its band n
SetMetadataItems(t, n, items) ==
    IF n = 0 THEN [t EXCEPT !.metadata = Update(@, items)]
    ELSE [t EXCEPT !.bands[n].metadata = Update(@, items)]

\* a set_metadata that sets the items on the raw tree only
SetMetadataRawOnly(rawT, vrtT, key, value, bandID) ==
    LET r == IF IsNone(bandID) THEN [err |-> "none", n |-> 0]
             ELSE GetBandNumber(vrtT, Val(bandID))
    IN  IF r.err # "none" \/ r.n > RasterCount(rawT)
        THEN [err |-> r.err, raw |-> rawT, vrt |-> vrtT]
        ELSE [err |-> "none",
              raw |-> SetMetadataItems(rawT, r.n, MetadataItems(key, value)),
              vrt |-> vrtT]

\* set_metadata(key, value, bandID) on (raw, vrt): [err, raw, vrt]; bandID
\* is None or Some(band identifier). The band number is resolved on the
\* working tree and used on both trees; GetRasterBand of a number the raw
\* tree does not have returns None
SetMetadata(rawT, vrtT, key, value, bandID) ==
    LET r == IF IsNone(bandID) THEN [err |-> "none", n |-> 0]
             ELSE GetBandNumber(vrtT, Val(bandID))
        items == MetadataItems(key, value)
    IN  IF r.err # "none" THEN [err |-> r.err, raw |-> rawT, vrt |-> vrtT]
        ELSE IF r.n > RasterCount(rawT)
        THEN [err |-> IF items = EmptyDict THEN "none" ELSE "AttributeError",
              raw |-> rawT, vrt |-> vrtT]
        ELSE [err |-> "none",
              raw |-> SetMetadataItems(rawT, r.n, items),
              vrt |-> SetMetadataItems(vrtT, r.n, items)]

-----------------------------------------------------------------------------
(* The arguments the operations are called with.                           *)

BandIDs == {IntID(n) : n \in -1..(MaxBands + 1)} \cup {StrID(b) : b \in BandNames}

Parameters == {EmptyDict} \cup {{<<"BandName", b>>} : b \in BandNames}

AddBandCall(fileName, vrtArg, bandID, array, parameters) ==
    [fileName |-> fileName, vrt |-> vrtArg, bandID |-> bandID,
     array |-> array, parameters |-> parameters]

\* array shapes are (rows, columns)
AddBandCalls ==
    {AddBandCall(None, None, IntID(1), Some(<<4, 4>>), p) : p \in Parameters}
    \cup {AddBandCall(None, Some(CallerTree), IntID(n), None, EmptyDict) :
            n \in {1, 2}}
    \cup {AddBandCall(Some("f"), None, id, None, EmptyDict) :
            id \in {IntID(1), StrID("B")}}
    \cup {AddBandCall(None, None, IntID(1), Some(<<2, 2>>), EmptyDict),
          AddBandCall(None, Some(CallerTree), IntID(1), Some(<<4, 4>>),
                      {<<"BandName", "A">>}),
          AddBandCall(None, None, IntID(1), None, EmptyDict)}

Factors == {Rat(1, 1), Rat(1, 2)}
Widths == {None, Some(2)}
Heights == {None, Some(1)}
Methods == {"average", "subsample", "nearest"}

DstDomains == {None} \cup {Some(d) : d \in Targets}

\* the files an object is constructed from, and the mapper names given
ConstructFiles ==
    {DataFile(TRUE, n, {}) : n \in 0..2}
    \cup {DataFile(TRUE, 1, {"mapper_landsat", "mapper_NetCDF"}),
          DataFile(TRUE, 1, {"mapper_custom"}),
          DataFile(FALSE, 0, {"mapper_landsat"}),
          DataFile(FALSE, 0, {})}

MapperNames == {"", "NetCDF", "landsat", "custom"}

\* the arguments of set_metadata: key, value, bandID
SetMetadataCalls ==
    {[key |-> KeyStr("units"), value |-> "K", bandID |-> b] :
        b \in {None, Some(IntID(1)), Some(IntID(2))}}
    \cup {[key |-> KeyDict({<<"BandName", "B">>, <<"units", "K">>}),
           value |-> "", bandID |-> Some(IntID(1))],
          [key |-> KeyStr("units"), value |-> "K", bandID |-> Some(StrID("A"))]}

\* the band lists of export: none, ordinals, names, repetitions, and
\* identifiers of bands the object may not have
ExportBandLists ==
    {None, Some(<<>>), Some(<<IntID(1)>>), Some(<<IntID(2), IntID(1)>>),
     Some(<<IntID(1), IntID(1)>>), Some(<<StrID("A")>>),
     Some(<<StrID("B"), IntID(1), StrID("B")>>), Some(<<IntID(3)>>)}

RmMetadataLists == {<<>>, <<"BandName">>, <<"colormap">>}

MosaicFileLists ==
    {<<>>, <<FileConst>>, <<FileConst, FileConst>>, <<FileMixed>>,
     <<FileMixed, FileShifted>>, <<FileConst, FileCloud>>, <<FileNoMask>>,
     <<FileByte>>,
     <<FileMissing, FileConst>>, <<FileUnreadable, FileConst>>,
     <<FileNoBand>>, <<FileMixed, FileUnreadable, FileShifted>>}

MosaicBandLists == {<<>>, <<"A">>, <<"B", "A">>}

-----------------------------------------------------------------------------
(* The object and its operations.                                          *)
(*   raw, vrt     self.raw and self.vrt                                    *)
(*   addedBands   self.addedBands                                          *)
(*   depth        in-place resizes of vrt since it was last rebuilt        *)
(*   call         the call that has just returned or raised: its name,     *)
(*                arguments and outcome; Idle between calls                *)
(*   old          raw, vrt and addedBands when that call began             *)
(*   other        a second object, whose working tree a caller may hand to *)
(*                add_band(vrt=...) of the first:                          *)
(*                  raw, vrt   its two trees                               *)
(*                  lent       None, or Some of the tree the first         *)
(*                             object's band reads, as it is now           *)
(*                  orig       that tree as it was when it was handed over *)
(*                  alias      other.vrt is still that very tree           *)
(* The object is single-threaded: a call runs to completion, the caller    *)
(* takes its outcome (done), and only then makes the next call.            *)
(***************************************************************************)

Idle == [op |-> "idle", err |-> "none"]

Snapshot(r, v, a) == [raw |-> r, vrt |-> v, addedBands |-> a]

\* the second object, made from the caller's file
OtherInit ==
    [raw |-> CallerTree, vrt |-> VRT_copy(CallerTree), lent |-> None,
     orig |-> None, alias |-> FALSE]

\* Nansat.__init__
Init ==
    /\ raw \in InitTrees
    /\ vrt = VRT_copy(raw)
    /\ addedBands = EmptyDict
    /\ depth = 0
    /\ call = Idle
    /\ old = Snapshot(raw, vrt, addedBands)
    /\ other = OtherInit

get_band_number(bandID) ==
    LET r == GetBandNumber(vrt, bandID)
    IN  /\ call = Idle
        /\ call' = [op |-> "_get_band_number", bandID |-> bandID,
                    err |-> r.err, ret |-> r.n]
        /\ UNCHANGED <<raw, vrt, addedBands, depth, old, other>>

\* add_band(**c) on the object
AddBandStep(c) ==
    LET r == AddBand(raw, vrt, addedBands, c.fileName, c.vrt, c.bandID,
                     c.array, c.parameters)
    IN  /\ call = Idle
        /\ RasterCount(raw) < MaxBands
        /\ raw' = r.raw
        /\ vrt' = r.vrt
        /\ addedBands' = r.addedBands
        /\ depth' = IF r.err = "none" THEN 0 ELSE depth
        /\ call' = [op |-> "add_band", args |-> c, err |-> r.err]
        /\ UNCHANGED old

add_band(c) == AddBandStep(c) /\ UNCHANGED other

resize(factor, width, height, method) ==
    LET f == ResizeFactor(vrt, factor, width, height)
        args == [factor |-> factor, width |-> width, height |-> height,
                 method |-> method]
    IN  /\ call = Idle
        /\ UNCHANGED <<addedBands, old, other>>
        /\ IF IsResetCall(factor, width, height)
           THEN /\ vrt' = ResetWorking(raw, vrt)
                /\ depth' = 0
                /\ call' = [op |-> "resize", args |-> args, reset |-> TRUE,
                            f |-> factor, err |-> "none"]
                /\ UNCHANGED raw
           ELSE IF ~MethodAccepted(method)
           THEN /\ call' = [op |-> "resize", args |-> args, reset |-> FALSE,
                            f |-> f, err |-> "OptionError"]
                /\ UNCHANGED <<raw, vrt, depth>>
           ELSE /\ depth < MaxResizes
                /\ IntOfProduct(vrt.XSize, f) >= 1
                /\ IntOfProduct(vrt.YSize, f) >= 1
                /\ \E doc \in Resized(vrt, f, method) :
                      /\ raw' = WriteXML(raw, vrt, doc).raw
                      /\ vrt' = WriteXML(raw, vrt, doc).vrt
                /\ depth' = depth + 1
                /\ call' = [op |-> "resize", args |-> args, reset |-> FALSE,
                            f |-> f, err |-> "none"]

reproject(dstDomain, resamplingAlg) ==
    LET r == Reproject(raw, vrt, dstDomain)
    IN  /\ call = Idle
        /\ vrt' = r.vrt
        /\ depth' = IF r.err = "none" THEN 0 ELSE depth
        /\ call' = [op |-> "reproject", dstDomain |-> dstDomain,
                    resamplingAlg |-> resamplingAlg, err |-> r.err]
        /\ UNCHANGED <<raw, addedBands, old, other>>

mosaic(files, bandNames) ==
    /\ call = Idle
    /\ RasterCount(raw) < MaxBands
    /\ \E r \in {Mosaic(raw, vrt, addedBands, files, bandNames)} :
          LET args == [files |-> files, bands |-> bandNames]
          IN  /\ raw' = r.raw
              /\ vrt' = r.vrt
              /\ addedBands' = r.addedBands
              /\ depth' = IF r.err = "none" THEN 0 ELSE depth
              /\ call' = IF r.err # "none"
                         THEN [op |-> "mosaic", args |-> args, err |-> r.err]
                         ELSE [op |-> "mosaic", args |-> args, err |-> "none",
                               cnt |-> r.cnt, mask |-> r.mask, sum |-> r.sum,
                               sumSq |-> r.sumSq, avg |-> r.avg,
                               std |-> r.std, processed |-> r.processed]
    /\ UNCHANGED <<old, other>>

\* n = Nansat(fileName, mapperName) in place of the object at hand; when
\* the constructor raises, the caller is left with the object it had
construct(f, mapperName) ==
    /\ call = Idle
    /\ \E r \in {Construct(f, mapperName)} :
          /\ call' = [op |-> "__init__",
                      args |-> [file |-> f, mapperName |-> mapperName],
                      err |-> r.err, tried |-> r.tried]
          /\ IF r.err = "none"
             THEN /\ raw' = r.raw
                  /\ vrt' = r.vrt
                  /\ addedBands' = EmptyDict
                  /\ depth' = 0
             ELSE UNCHANGED <<raw, vrt, addedBands, depth>>
    /\ UNCHANGED <<old, other>>

set_metadata(c) ==
    LET r == SetMetadata(raw, vrt, c.key, c.value, c.bandID)
    IN  /\ call = Idle
        /\ raw' = r.raw
        /\ vrt' = r.vrt
        /\ call' = [op |-> "set_metadata", args |-> c, err |-> r.err]
        /\ UNCHANGED <<addedBands, depth, old, other>>

\* add_band(vrt=other.vrt, bandID=n): the band is sourced from the working
\* tree of the other object, which self.addedBands then refers to
add_band_vrt(n) ==
    /\ IsNone(other.lent)
    /\ AddBandStep(AddBandCall(None, Some(other.vrt), IntID(n), None,
                               EmptyDict))
    /\ other' = IF call'.err = "none"
                THEN [other EXCEPT !.lent = Some(other.vrt),
                                   !.orig = Some(other.vrt), !.alias = TRUE]
                ELSE other

\* the other object after one of its trees was replaced by a new one (nv
\* its working tree, nr its raw tree): the tree handed over is as it was
OtherRebuilt(nr, nv) ==
    [other EXCEPT !.raw = nr, !.vrt = nv, !.alias = FALSE]

\* the other object after its working tree was written in place: the tree
\* handed over, when it is that tree, has the new content
OtherWritten(nr, nv) ==
    [other EXCEPT !.raw = nr, !.vrt = nv,
                  !.lent = IF other.alias THEN Some(nv) ELSE @]

\* other.resize(factor, method=method)
other_resize(factor, method) ==
    LET f == ResizeFactor(other.vrt, factor, None, None)
    IN  /\ call = Idle
        /\ UNCHANGED <<raw, vrt, addedBands, depth, old>>
        /\ IF IsResetCall(factor, None, None)
           THEN /\ other' = OtherRebuilt(other.raw,
                                         ResetWorking(other.raw, other.vrt))
                /\ call' = [op |-> "other.resize", reset |-> TRUE,
                            err |-> "none"]
           ELSE IF ~MethodAccepted(method)
           THEN /\ call' = [op |-> "other.resize", reset |-> FALSE,
                            err |-> "OptionError"]
                /\ UNCHANGED other
           ELSE /\ IntOfProduct(other.vrt.XSize, f) >= 1
                /\ IntOfProduct(other.vrt.YSize, f) >= 1
                /\ \E doc \in Resized(other.vrt, f, method) :
                      other' = OtherWritten(
                                  WriteXML(other.raw, other.vrt, doc).raw,
                                  WriteXML(other.raw, other.vrt, doc).vrt)
                /\ call' = [op |-> "other.resize", reset |-> FALSE,
                            err |-> "none"]

\* other.reproject(dstDomain)
other_reproject(dstDomain) ==
    LET r == Reproject(other.raw, other.vrt, dstDomain)
    IN  /\ call = Idle
        /\ other' = IF r.err = "none" THEN OtherRebuilt(other.raw, r.vrt)
                    ELSE other
        /\ call' = [op |-> "other.reproject", err |-> r.err]
        /\ UNCHANGED <<raw, vrt, addedBands, depth, old>>

\* other.add_band(**c)
other_add_band(c) ==
    LET r == AddBand(other.raw, other.vrt, EmptyDict, c.fileName, c.vrt,
                     c.bandID, c.array, c.parameters)
    IN  /\ call = Idle
        /\ RasterCount(other.raw) < MaxBands
        /\ other' = IF r.err = "none" THEN OtherRebuilt(r.raw, r.vrt)
                    ELSE other
        /\ call' = [op |-> "other.add_band", err |-> r.err]
        /\ UNCHANGED <<raw, vrt, addedBands, depth, old>>

\* other.set_metadata(**c)
other_set_metadata(c) ==
    LET r == SetMetadata(other.raw, other.vrt, c.key, c.value, c.bandID)
    IN  /\ call = Idle
        /\ other' = IF r.err = "none" THEN OtherWritten(r.raw, r.vrt)
                    ELSE other
        /\ call' = [op |-> "other.set_metadata", err |-> r.err]
        /\ UNCHANGED <<raw, vrt, addedBands, depth, old>>

export(bandsArg, rmMetadata) ==
    LET r == Export(vrt, bandsArg, rmMetadata)
        args == [bands |-> bandsArg, rmMetadata |-> rmMetadata]
    IN  /\ call = Idle
        /\ call' = IF r.err # "none"
                   THEN [op |-> "export", args |-> args, err |-> r.err]
                   ELSE [op |-> "export", args |-> args, err |-> "none",
                         tree |-> r.tree, metadata |-> r.metadata]
        /\ UNCHANGED <<raw, vrt, addedBands, depth, old, other>>

\* the caller takes the outcome of the call
done ==
    /\ call # Idle
    /\ call' = Idle
    /\ old' = Snapshot(raw, vrt, addedBands)
    /\ UNCHANGED <<raw, vrt, addedBands, depth, other>>

Next ==
    \/ \E bandID \in BandIDs : get_band_number(bandID)
    \/ \E c \in AddBandCalls : add_band(c)
    \/ \E factor \in Factors, width \in Widths, height \in Heights,
          method \in Methods : resize(factor, width, height, method)
    \/ \E dstDomain \in DstDomains, resamplingAlg \in {0, 1} :
          reproject(dstDomain, resamplingAlg)
    \/ done

Spec == Init /\ [][Next]_vars

\* The object with mosaic among its operations; the other operations are
\* called with fewer arguments: bands added from arrays, a resize by 1/2
\* and its reset, reprojection onto the destinations with a projection.
MosaicAddBandCalls ==
    {AddBandCall(None, None, IntID(1), Some(<<4, 4>>), p) :
        p \in {EmptyDict, {<<"BandName", "A">>}, {<<"BandName", "mask">>}}}

MosaicDstDomains == {Some(TargetGrid), Some(TargetGCPs)}

NextMosaic ==
    \/ \E files \in MosaicFileLists, bandNames \in MosaicBandLists :
          mosaic(files, bandNames)
    \/ \E bandID \in {StrID("A"), StrID("mask")} : get_band_number(bandID)
    \/ \E c \in MosaicAddBandCalls : add_band(c)
    \/ \E factor \in Factors : resize(factor, None, None, "average")
    \/ \E dstDomain \in MosaicDstDomains : reproject(dstDomain, 1)
    \/ done

MosaicSpec == Init /\ [][NextMosaic]_vars

\* The object with export among its operations; bands are added from
\* arrays and from a caller's tree, with and without a name.
ExportAddBandCalls ==
    {AddBandCall(None, None, IntID(1), Some(<<4, 4>>), p) : p \in Parameters}
    \cup {AddBandCall(None, Some(CallerTree), IntID(1), None, EmptyDict)}

NextExport ==
    \/ \E bandsArg \in ExportBandLists, rmMetadata \in RmMetadataLists :
          export(bandsArg, rmMetadata)
    \/ \E bandID \in {IntID(2), StrID("B")} : get_band_number(bandID)
    \/ \E c \in ExportAddBandCalls : add_band(c)
    \/ \E factor \in Factors : resize(factor, None, None, "average")
    \/ \E dstDomain \in MosaicDstDomains : reproject(dstDomain, 1)
    \/ done

ExportSpec == Init /\ [][NextExport]_vars

\* The object with its construction from a file among the operations.
NextMapper ==
    \/ \E f \in ConstructFiles, mapperName \in MapperNames :
          construct(f, mapperName)
    \/ \E bandID \in {IntID(1), IntID(2), StrID("A")} : get_band_number(bandID)
    \/ \E c \in ExportAddBandCalls : add_band(c)
    \/ \E factor \in Factors : resize(factor, None, None, "average")
    \/ \E dstDomain \in MosaicDstDomains : reproject(dstDomain, 1)
    \/ done

MapperSpec == Init /\ [][NextMapper]_vars

\* The object with construction, add_band, resize, reproject, set_metadata
\* and mosaic among its operations, each called with few arguments.
ObjectFiles ==
    {DataFile(TRUE, 2, {}), DataFile(TRUE, 1, {"mapper_landsat"}),
     DataFile(FALSE, 0, {})}

ObjectMosaicLists == {<<FileConst>>, <<FileMixed, FileShifted>>, <<FileNoBand>>}

ObjectSetMetadataCalls ==
    {c \in SetMetadataCalls : c.bandID \in {None, Some(IntID(2))}}
    \cup {c \in SetMetadataCalls : c.key.isDict}

NextObject ==
    \/ \E f \in ObjectFiles, mapperName \in {"", "landsat"} :
          construct(f, mapperName)
    \/ \E c \in ExportAddBandCalls : add_band(c)
    \/ \E factor \in Factors : resize(factor, None, None, "average")
    \/ \E dstDomain \in MosaicDstDomains : reproject(dstDomain, 1)
    \/ \E c \in ObjectSetMetadataCalls : set_metadata(c)
    \/ \E files \in ObjectMosaicLists, bandNames \in {<<>>, <<"A">>} :
          mosaic(files, bandNames)
    \/ done

ObjectSpec == Init /\ [][NextObject]_vars

\* Two objects: the first may take a band from the working tree of the
\* second, and both are operated on.
OwnersAddBandCalls ==
    {AddBandCall(None, None, IntID(1), Some(<<4, 4>>), {<<"BandName", "A">>})}

OwnersSetMetadataCalls ==
    {[key |-> KeyStr("units"), value |-> "K", bandID |-> b] :
        b \in {None, Some(IntID(1))}}

NextOwners ==
    \/ \E n \in {1, 2} : add_band_vrt(n)
    \/ \E factor \in Factors, method \in Methods : other_resize(factor, method)
    \/ \E dstDomain \in {Some(TargetGrid)} : other_reproject(dstDomain)
    \/ \E c \in OwnersAddBandCalls : other_add_band(c)
    \/ \E c \in OwnersSetMetadataCalls : other_set_metadata(c)
    \/ \E bandID \in {IntID(1), IntID(2)} : get_band_number(bandID)
    \/ done

OwnersSpec == Init /\ [][NextOwners]_vars

-----------------------------------------------------------------------------
(* Notions the claims are stated with.                                     *)

\* the bands of tree t whose BandName is s
Named(t, s) ==
    {k \in 1..RasterCount(t) :
        HasKey(t.bands[k].metadata, "BandName")
        /\ Get(t.bands[k].metadata, "BandName") = s}

\* some band of t has no BandName
SomeNameless(t) ==
    \E k \in 1..RasterCount(t) : ~HasKey(t.bands[k].metadata, "BandName")

Max(S) == CHOOSE m \in S : \A k \in S : k <= m
Min(S) == CHOOSE m \in S : \A k \in S : m <= k

\* size, geotransform, projection and GCPs of a tree
Geometry(t) ==
    [XSize |-> t.XSize, YSize |-> t.YSize, geoTransform |-> t.geoTransform,
     projection |-> t.projection, gcps |-> t.gcps,
     gcpProjection |-> t.gcpProjection]

Resolved == call.op = "_get_band_number"
ResolvedName == Resolved /\ call.bandID.isStr
ResolvedInt == Resolved /\ ~call.bandID.isStr

\* the last call was a reset: resize() without geometry or reproject()
\* without a destination
WasReset ==
    \/ call.op = "resize" /\ call.reset
    \/ call.op = "reproject" /\ IsNone(call.dstDomain)

\* the last call was a resize that is not a reset, and it returned
Resizing == call.op = "resize" /\ ~call.reset
ResizedOK == Resizing /\ call.err = "none"

\* the last call was add_band and it returned
AddedOK == call.op = "add_band" /\ call.err = "none"

-----------------------------------------------------------------------------
(* C1 - C3: _get_band_number.                                              *)

\* C1: _get_band_number returns n for every integer n in 1..bandCount of the
\* working tree, and for every string that is the BandName of exactly one
\* band it returns that band's ordinal, whatever the other bands carry.
C1_ResolveReturnsOrdinal ==
    /\ (ResolvedInt /\ call.bandID.i \in 1..RasterCount(vrt))
          => (call.err = "none" /\ call.ret = call.bandID.i)
    /\ (ResolvedName /\ Cardinality(Named(vrt, call.bandID.s)) = 1)
          => (call.err = "none" /\ {call.ret} = Named(vrt, call.bandID.s))

\* C2: _get_band_number fails with the band-not-found error (OptionError)
\* for every integer outside 1..bandCount and every string that is no
\* band's BandName, and the failing call leaves raw and working unchanged.
C2_ResolveFailsNotFound ==
    (\/ ResolvedInt /\ call.bandID.i \notin 1..RasterCount(vrt)
     \/ ResolvedName /\ Named(vrt, call.bandID.s) = {})
       => (call.err = "OptionError" /\ raw = old.raw /\ vrt = old.vrt)

-----------------------------------------------------------------------------
(* C4 - C6: reset and add_band.                                            *)

\* C4: a reset call (resize() with factor 1 and neither width nor height, or
\* reproject() without a destination) returns, leaves the working tree a
\* copy of raw (same size, geotransform, GCPs and bands) and leaves raw as
\* it was before the call.
C4_ResetRestoresRaw ==
    WasReset => (call.err = "none" /\ vrt = VRT_copy(raw) /\ raw = old.raw)

\* a reset of a working tree that differed from raw
C4_Witness ==
    /\ WasReset
    /\ Geometry(old.vrt) # Geometry(old.raw)
    /\ RasterCount(raw) > 0
    /\ vrt = raw

\* the last call was add_band from an array with parameters {'BandName': B}
\* for a B no band had, and it returned
AddedNewName ==
    /\ AddedOK
    /\ ~IsNone(call.args.array)
    /\ HasKey(call.args.parameters, "BandName")
    /\ Named(old.raw, Get(call.args.parameters, "BandName")) = {}

\* C5: a successful add_band from an array with parameters {'BandName': B},
\* B not used before, appends exactly one band to raw at ordinal
\* oldCount + 1 and keeps the earlier bands; the working tree then has the
\* same oldCount + 1 bands and _get_band_number(B) returns oldCount + 1.
C5_AddBandAppends ==
    AddedNewName =>
       LET oldCount == RasterCount(old.raw)
           B == Get(call.args.parameters, "BandName")
       IN  /\ RasterCount(raw) = oldCount + 1
           /\ SubSeq(raw.bands, 1, oldCount) = old.raw.bands
           /\ Named(raw, B) = {oldCount + 1}
           /\ RasterCount(vrt) = oldCount + 1
           /\ \A k \in 1..(oldCount + 1) :
                 vrt.bands[k].metadata = raw.bands[k].metadata
           /\ GetBandNumber(vrt, StrID(B)) = [err |-> "none", n |-> oldCount + 1]

\* C6: right after a successful add_band the working tree has the size,
\* geotransform, projection and GCPs of raw, whatever resize or reproject
\* calls came before.
C6_AddBandDiscardsGeometry ==
    AddedOK => Geometry(vrt) = Geometry(raw)

\* add_band returned on an object whose working tree had been resized or
\* reprojected
C6_Witness ==
    /\ AddedOK
    /\ Geometry(old.vrt) # Geometry(old.raw)
    /\ Geometry(vrt) = Geometry(old.raw)

-----------------------------------------------------------------------------
(* C7 - C10: resize and reproject.                                         *)

\* round(x * f): the nearest integer, halves away from zero
RoundOfProduct(x, f) == (2 * x * f[1] + f[2]) \div (2 * f[2])

\* C7: a resize that is not a reset works with the factor given, or
\* width / W when width is given, or height / H when height is given, and
\* leaves the working tree with size (round(f * W), round(f * H)).
C7_RoundedSize ==
    ResizedOK =>
       LET W == old.vrt.XSize
           H == old.vrt.YSize
           a == call.args
           f == IF ~IsNone(a.height) THEN Rat(Val(a.height), H)
                ELSE IF ~IsNone(a.width) THEN Rat(Val(a.width), W)
                ELSE a.factor
       IN  /\ vrt.XSize = RoundOfProduct(W, f)
           /\ vrt.YSize = RoundOfProduct(H, f)

\* the coordinate new is min(c * f, n), every digit of it
IsClampedProduct(new, c, f, n) ==
    IF ProductGreater(c, f, n) THEN new = DecOfInt(n)
    ELSE ProductIsExact(c, f) /\ new = ProductDigits(c, f).lo

\* C8: after a resize that is not a reset, with effective factor f, every
\* GCP of the working tree has Pixel = min(oldPixel * f, newWidth) and
\* Line = min(oldLine * f, newHeight), and the GCPs are as many and in the
\* same order as before.
C8_GCPsScaledAndClamped ==
    ResizedOK =>
       /\ Len(vrt.gcps) = Len(old.vrt.gcps)
       /\ \A i \in 1..Len(vrt.gcps) :
             /\ vrt.gcps[i].Id = old.vrt.gcps[i].Id
             /\ IsClampedProduct(vrt.gcps[i].Pixel, old.vrt.gcps[i].Pixel,
                                 call.f, vrt.XSize)
             /\ IsClampedProduct(vrt.gcps[i].Line, old.vrt.gcps[i].Line,
                                 call.f, vrt.YSize)

\* C9 as stated: resize accepts exactly "average" and "nearest"; with any
\* other method, whatever factor, width and height are, it fails with
\* OptionError and leaves raw and the working tree unchanged.
C9_AverageOrNearest ==
    call.op = "resize" =>
       IF call.args.method \in {"average", "nearest"}
       THEN call.err = "none"
       ELSE call.err = "OptionError" /\ raw = old.raw /\ vrt = old.vrt

\* C9 amended: a resize that is not a reset accepts exactly "average" and
\* "subsample"; with any other method it fails with OptionError and leaves
\* raw and the working tree unchanged.  The reset call returns before the
\* method is looked at: it never fails and rebuilds the working tree.
C9_AverageOrSubsample ==
    /\ Resizing =>
          IF call.args.method \in {"average", "subsample"}
          THEN call.err = "none"
          ELSE call.err = "OptionError" /\ raw = old.raw /\ vrt = old.vrt
    /\ (call.op = "resize" /\ call.reset) =>
          (call.err = "none" /\ vrt = raw /\ raw = old.raw)

\* a resize to a given width was refused for its method, on a working tree
\* that an earlier call had changed
C9_Witness ==
    /\ Resizing
    /\ call.args.method = "nearest"
    /\ ~IsNone(call.args.width)
    /\ call.err = "OptionError"
    /\ old.vrt # old.raw

\* C10: resize and reproject, with any arguments and in any order, leave
\* the raw tree (size, geotransform, GCPs, bands and their sources) as it
\* was before the call.
C10_RawUntouched ==
    call.op \in {"resize", "reproject"} => raw = old.raw

\* a resize changed the size and the source tags of a working tree with
\* bands, after an earlier call had changed it
C10_Witness ==
    /\ ResizedOK
    /\ RasterCount(raw) > 0
    /\ vrt.XSize # old.vrt.XSize
    /\ vrt.bands # old.vrt.bands
    /\ old.vrt # old.raw

-----------------------------------------------------------------------------
(* C11 - C12: reproject onto a destination.                                *)

\* the last call was reproject with a destination
Reprojecting == call.op = "reproject" /\ ~IsNone(call.dstDomain)
ReprojectedOK == Reprojecting /\ call.err = "none"

\* C11: after reproject onto a destination the working tree has the size
\* and geotransform of the destination and is warped from the whole of raw:
\* it has every band of raw, bands added by earlier add_band calls
\* included, each reading the full grid of raw, so that an earlier resize
\* of the working tree has no effect on it.
C11_WarpedFromRaw ==
    ReprojectedOK =>
       LET d == Val(call.dstDomain)
       IN  /\ vrt.XSize = d.XSize /\ vrt.YSize = d.YSize
           /\ vrt.geoTransform = d.geoTransform
           /\ RasterCount(vrt) = RasterCount(raw)
           /\ \A k \in 1..RasterCount(raw) :
                 /\ vrt.bands[k].metadata = raw.bands[k].metadata
                 /\ vrt.bands[k].SourceBand = k
                 /\ vrt.bands[k].SourceFilename = WarpedSource(raw)

\* a reproject of an object with an added band and a resized working tree
C11_Witness ==
    /\ ReprojectedOK
    /\ addedBands # EmptyDict
    /\ RasterCount(raw) = 2
    /\ old.vrt.XSize # old.raw.XSize
    /\ vrt.XSize # raw.XSize

\* the destination has no projection reproject can take: no GCPs and an
\* empty projection, or GCPs with an empty GCP projection
Unresolvable(d) ==
    \/ Len(d.gcps) = 0 /\ d.projection = ""
    \/ Len(d.gcps) > 0 /\ d.gcpProjection = ""

-----------------------------------------------------------------------------
(* C13: band names.                                                        *)

\* no two bands of tree t have the same BandName
UniqueNames(t) ==
    \A j, k \in 1..RasterCount(t) :
       (/\ j # k
        /\ HasKey(t.bands[j].metadata, "BandName")
        /\ HasKey(t.bands[k].metadata, "BandName"))
          => Get(t.bands[j].metadata, "BandName")
                # Get(t.bands[k].metadata, "BandName")

\* C13: in every state reached by add_band and mosaic calls, calls that
\* repeat a BandName included, no two bands of raw and no two bands of the
\* working tree have the same BandName.
C13_UniqueBandNames == UniqueNames(raw) /\ UniqueNames(vrt)

-----------------------------------------------------------------------------
(* C14 - C19: mosaic.                                                      *)

\* the last call was mosaic and it returned
MosaicOK == call.op = "mosaic" /\ call.err = "none"

\* the requested band names of the last mosaic call, as a set
Requested == {call.args.bands[k] : k \in 1..Len(call.args.bands)}

\* file f is opened, has a band 'mask' and the requested bands, and is read
\* after its reprojection
GoodFile(f) ==
    /\ f.opens /\ f.readable
    /\ \E k \in 1..Len(f.names) : f.names[k] = "mask"
    /\ \A b \in Requested : \E k \in 1..Len(f.names) : f.names[k] = b

\* C14: mosaic of one file whose reprojected mask is 128 at every pixel and
\* whose requested band is a constant c at every pixel gives count = 1,
\* mean = c and std = 0 at every pixel.
C14_SingleConstantFile ==
    (/\ MosaicOK
     /\ Len(call.args.files) = 1
     /\ GoodFile(call.args.files[1])
     /\ ~call.args.files[1].ramp
     /\ \A p \in Pixels(shape(old.vrt)) :
           MaskAt(call.args.files[1], p[1], p[2]) = 128)
       => \A p \in Pixels(shape(old.vrt)) :
                /\ call.cnt[p] = 1
                /\ \A b \in Requested :
                      /\ call.avg[b][p] = Num(call.args.files[1].c)
                      /\ call.std[b][p] = Num(0)

\* the sum of the values of a function over a finite subset of its domain
RECURSIVE SumOver(_, _)
SumOver(fn, S) ==
    IF S = {} THEN 0
    ELSE LET x == CHOOSE y \in S : TRUE
         IN  fn[x] + SumOver(fn, S \ {x})

\* the largest member of a finite non-empty set of numbers
MaxOf(S) == CHOOSE x \in S : \A y \in S : y <= x

\* the positions of the files mosaic processed: those whose reprojected mask
\* could be fetched
ProcessedFiles == {i \in 1..Len(call.args.files) : call.args.files[i].readable}

\* the processed files whose reprojected mask is 128 at pixel p
ValidAt(p) ==
    {i \in ProcessedFiles : MaskAt(call.args.files[i], p[1], p[2]) = 128}

VarianceEstimator(sumSq, sum, cnt) ==
    LET mean == FDiv(Num(sum), Num(cnt))
    IN  FDiv(FAdd(FSub(Num(sumSq), FMul(FMul(Num(2), mean), Num(sum))),
                  FMul(Num(cnt), FSquare(mean))),
             Num(cnt))

\* C16: at every pixel with count >= 1, the mean band is sum / count and the
\* std band is computed from the variance estimator
\* (sumSq - 2*mean*sum + count*mean^2) / count, so it is 0 exactly where
\* that estimator is 0, as it is where all valid observations are equal.
C16_MeanAndStd ==
    MosaicOK
       => \A p \in Pixels(shape(old.vrt)) : \A b \in Requested :
             call.cnt[p] >= 1
                => LET var == VarianceEstimator(call.sumSq[b][p],
                                                call.sum[b][p], call.cnt[p])
                   IN  /\ call.avg[b][p] =
                             Frac(call.sum[b][p], call.cnt[p])
                       /\ var = Num(0) <=> call.std[b][p] = Num(0)

\* file f has a band named b
HasBand(f, b) == \E k \in 1..Len(f.names) : f.names[k] = b

\* the positions of the files of the last mosaic call that have no band 'mask'
Maskless ==
    {i \in 1..Len(call.args.files) : ~HasBand(call.args.files[i], "mask")}

\* C17: a mosaic of files that open, reproject and carry the requested
\* bands returns although some of them have no band 'mask', and each of
\* those counts as valid at every pixel.
C17_SynthesizedMask ==
    (/\ call.op = "mosaic"
     /\ Maskless # {}
     /\ \A i \in 1..Len(call.args.files) :
           LET f == call.args.files[i]
           IN  /\ f.opens /\ f.readable
               /\ \A b \in Requested : HasBand(f, b))
       => /\ call.err = "none"
          /\ \A p \in Pixels(shape(old.vrt)) :
                call.cnt[p] =
                   Cardinality(Maskless)
                   + Cardinality({i \in (1..Len(call.args.files)) \ Maskless :
                        MaskAt(call.args.files[i], p[1], p[2]) = 128})

\* the positions of the files of the last mosaic call that open and whose
\* reprojected mask can be fetched
Usable ==
    {i \in 1..Len(call.args.files) :
        call.args.files[i].opens /\ call.args.files[i].readable}

\* C18: a mosaic in which some file cannot be opened or reprojected, all
\* others being complete, returns; the failing files add nothing to the
\* count and the combined mask, and the others are all processed.
C18_FailingFileSkipped ==
    (/\ call.op = "mosaic"
     /\ Usable # 1..Len(call.args.files)
     /\ \A i \in Usable : GoodFile(call.args.files[i]))
       => /\ call.err = "none"
          /\ {call.processed[k] : k \in 1..Len(call.processed)} = Usable
          /\ \A p \in Pixels(shape(old.vrt)) :
                /\ call.cnt[p] =
                      Cardinality({i \in Usable :
                         MaskAt(call.args.files[i], p[1], p[2]) = 128})
                /\ call.mask[p] =
                      MaxOf({0} \cup {MaskAt(call.args.files[i], p[1], p[2]) :
                                        i \in Usable})

\* tree t is tree t0 with bands of the given BandNames appended, in that
\* order, the bands of t0 keeping their ordinals and metadata
AppendedNames(t0, t, names) ==
    /\ RasterCount(t) = RasterCount(t0) + Len(names)
    /\ \A j \in 1..RasterCount(t0) :
          BandMetadata(t, j) = BandMetadata(t0, j)
    /\ \A i \in 1..Len(names) :
          LET md == BandMetadata(t, RasterCount(t0) + i)
          IN  HasKey(md, "BandName") /\ Get(md, "BandName") = names[i]

\* 'mask', then <name> and <name>_std for each requested name, in list order
RECURSIVE MaskMeanStd(_)
MaskMeanStd(bandNames) ==
    IF bandNames = <<>> THEN <<"mask">>
    ELSE LET k == Len(bandNames)
         IN  MaskMeanStd(SubSeq(bandNames, 1, k - 1))
             \o <<bandNames[k], bandNames[k] \o "_std">>

\* C19: a successful mosaic with k requested names appends exactly 1 + 2k
\* bands to raw and to working: 'mask', then for each name in list order
\* <name> and <name>_std; the bands present before keep their ordinals.
C19_MosaicAppends ==
    MosaicOK
       => LET names == MaskMeanStd(call.args.bands)
          IN  /\ Len(names) = 1 + 2 * Len(call.args.bands)
              /\ AppendedNames(old.raw, raw, names)
              /\ AppendedNames(old.vrt, vrt, names)

\* a successful mosaic with two requested names on an object that had a band
C19_Witness ==
    /\ MosaicOK
    /\ Len(call.args.bands) = 2
    /\ RasterCount(old.raw) >= 1
    /\ RasterCount(raw) = RasterCount(old.raw) + 5
    /\ Get(BandMetadata(vrt, RasterCount(vrt)), "BandName") = "A_std"

-----------------------------------------------------------------------------
(* C20: export.                                                            *)

\* identifier id names a band of tree t: an ordinal in range, or the
\* BandName of one of its bands
ValidID(t, id) ==
    IF id.isStr THEN Named(t, id.s) # {} ELSE id.i \in 1..RasterCount(t)

\* band ordinal n of tree t is one that identifier id names
Names(t, id, n) == IF id.isStr THEN n \in Named(t, id.s) ELSE n = id.i

\* dict d keeps every entry of d0 whose key is not in rmMetadata, and adds
\* nothing but NETCDF_VARNAME
Preserved(d0, d, rmMetadata) ==
    /\ \A q \in d0 :
          (\A k \in 1..Len(rmMetadata) : q[1] # rmMetadata[k]) => q \in d
    /\ \A q \in d : q \in d0 \/ q[1] = "NETCDF_VARNAME"

\* C20: export with a list of valid identifiers (ordinals or names, with
\* repetitions) returns with a tree of working's geometry whose bands are the
\* resolved bands in list order, each sourced to working's file and the
\* resolved ordinal with its other metadata preserved; export without a
\* list returns with a copy of all of working's bands; raw and working are
\* unchanged.
C20_ExportTree ==
    call.op = "export"
       => /\ raw = old.raw /\ vrt = old.vrt
          /\ IsNone(call.args.bands)
                => /\ call.err = "none"
                   /\ Len(call.tree.bands) = RasterCount(vrt)
                   /\ \A k \in 1..RasterCount(vrt) :
                         /\ call.tree.bands[k].SourceFilename =
                               vrt.bands[k].SourceFilename
                         /\ call.tree.bands[k].SourceBand =
                               vrt.bands[k].SourceBand
                         /\ Preserved(BandMetadata(vrt, k),
                                      call.tree.bands[k].metadata,
                                      call.args.rmMetadata)
          /\ (/\ ~IsNone(call.args.bands)
              /\ \A i \in 1..Len(Val(call.args.bands)) :
                    ValidID(vrt, Val(call.args.bands)[i]))
                => /\ call.err = "none"
                   /\ Geometry(call.tree) = Geometry(vrt)
                   /\ Len(call.tree.bands) = Len(Val(call.args.bands))
                   /\ \A i \in 1..Len(Val(call.args.bands)) :
                         LET b == call.tree.bands[i]
                         IN  /\ b.SourceFilename = VRT_fileName(vrt)
                             /\ b.SourceBand \in 1..RasterCount(vrt)
                             /\ Names(vrt, Val(call.args.bands)[i],
                                      b.SourceBand)
                             /\ Preserved(BandMetadata(vrt, b.SourceBand),
                                          b.metadata, call.args.rmMetadata)

-----------------------------------------------------------------------------
(* C21, C22: construction from a file.                                     *)

Constructed == call.op = "__init__"

\* the module names _get_mapper goes through for the last constructor call:
\* the caller-named one, then the listed ones
Candidates ==
    <<"mapper_" \o call.args.mapperName>>
    \o [k \in 1..Len(mapperList) |-> mapperList[k].base]

\* the positions of the candidates that accept the file of the last call
Fitting == {k \in 1..Len(Candidates) : Candidates[k] \in call.args.file.fits}

\* C21: _get_mapper tries the candidates in list order, the caller-named
\* mapper first, goes on after a candidate's failure and returns the tree of
\* the first candidate that succeeds, trying none after it; when all fail
\* and the file opens, the tree has one band per raster band of the file,
\* band i sourced from band i of the file.
C21_MapperDispatch ==
    Constructed
       => /\ Fitting # {}
                => /\ call.err = "none"
                   /\ call.tried = SubSeq(Candidates, 1, Min(Fitting))
                   /\ raw = MapperTreeOf(Candidates[Min(Fitting)])
          /\ (Fitting = {} /\ call.args.file.opens)
                => /\ call.err = "none"
                   /\ call.tried = Candidates
                   /\ RasterCount(raw) = call.args.file.RasterCount
                   /\ \A k \in 1..RasterCount(raw) :
                         /\ raw.bands[k].SourceFilename = Source("file", 0)
                         /\ raw.bands[k].SourceBand = k

\* a file two listed mappers accept was constructed with the later of the
\* two named by the caller: that mapper made the tree and no other was tried
C21_Witness ==
    /\ Constructed
    /\ call.args.mapperName = "NetCDF"
    /\ {"mapper_landsat", "mapper_NetCDF"} \subseteq call.args.file.fits
    /\ call.tried = <<"mapper_NetCDF">>
    /\ raw = MapperTreeOf("mapper_NetCDF")

\* C22: constructing an object from a file that gdal.Open cannot open and
\* that no mapper accepts fails with GDALError, and the caller gets no
\* object: the one at hand is as it was.
C22_UnopenableFile ==
    (/\ Constructed
     /\ ~call.args.file.opens
     /\ Fitting = {})
       => /\ call.err = "GDALError"
          /\ raw = old.raw /\ vrt = old.vrt /\ addedBands = old.addedBands

-----------------------------------------------------------------------------
(* C23: the table self.addedBands.                                         *)

\* the kinds of source add_band makes or is handed: a tree of an array, of
\* a resized array, of a reprojected file, or the caller's tree
AddedKinds == {"array", "resized", "warped", "vrt"}

\* the trees self.addedBands refers to
KeptAlive == {q[2] : q \in addedBands}

\* C23: the tree that backs a band add_band appended to raw is referred to
\* by self.addedBands, whatever add_band calls came after.
C23_BackingTreesKept ==
    \A k \in 1..RasterCount(raw) :
       raw.bands[k].SourceFilename.kind \in AddedKinds
          => raw.bands[k].SourceFilename \in KeptAlive

-----------------------------------------------------------------------------
(* C24: the resampling rule of the bands after resize.                     *)

\* the source tags that stand for the rule of a method: AveragedSource
\* averages over the area of a pixel, ComplexSource and SimpleSource take
\* the nearest sample
TagsOfMethod(method) ==
    IF method = "average" THEN {"AveragedSource"}
    ELSE {"ComplexSource", "SimpleSource"}

\* C24: after a resize that is not a reset and returns, every band of the
\* working tree has the resampling rule of the method of that call, whatever
\* resize calls came before it.
C24_ResamplingFollowsMethod ==
    ResizedOK
       => \A k \in 1..RasterCount(vrt) :
             vrt.bands[k].tag \in TagsOfMethod(call.args.method)

-----------------------------------------------------------------------------
(* C25: two objects.                                                       *)

\* what a band sourced from tree t reads: the raster of t and the sources
\* of its bands
Reads(t) ==
    [XSize |-> t.XSize, YSize |-> t.YSize,
     sources |-> [k \in 1..RasterCount(t) |->
                    [SourceFilename |-> t.bands[k].SourceFilename,
                     SourceBand |-> t.bands[k].SourceBand,
                     tag |-> t.bands[k].tag]]]

\* the last call was an operation on the other object
OnOther ==
    call.op \in {"other.resize", "other.reproject", "other.add_band",
                 "other.set_metadata"}

\* C25: no operation on the other object changes the trees of this object,
\* nor what this object's band reads from the tree it was given with
\* add_band(vrt=other.vrt), also when the other object is resized afterwards.
C25_ObjectsIndependent ==
    /\ OnOther => (raw = old.raw /\ vrt = old.vrt)
    /\ ~IsNone(other.lent) => Reads(Val(other.lent)) = Reads(Val(other.orig))

-----------------------------------------------------------------------------
(* C26: order of the files of mosaic.                                      *)

\* the lists with the elements of list s in another order (s included)
Reorderings(s) ==
    LET n == Len(s)
        Bij == {f \in [1..n -> 1..n] : \A i, j \in 1..n : f[i] = f[j] => i = j}
    IN  {[i \in 1..n |-> s[f[i]]] : f \in Bij}

\* what mosaic computes: whether it ends without exception and, if so, the
\* count, mean, std and mask at every pixel
MosaicResult(r) ==
    IF r.err # "none" THEN [ok |-> FALSE]
    ELSE [ok |-> TRUE, cnt |-> r.cnt, avg |-> r.avg, std |-> r.std,
          mask |-> r.mask]

-----------------------------------------------------------------------------
(* C27: the bands of the raw and the working tree.                         *)

\* band k of the working tree t is band k of the raw tree r: it carries
\* the same metadata, the name among them
Corresponds(r, t, k) == t.bands[k].metadata = r.bands[k].metadata

\* C27: raw and working have the same number of bands, band k of working
\* corresponds to band k of raw, and no operation on the object takes a band
\* from raw.
C27_BandsCorrespond ==
    /\ RasterCount(vrt) = RasterCount(raw)
    /\ \A k \in 1..RasterCount(raw) : Corresponds(raw, vrt, k)
    /\ (call.op \notin {"idle", "__init__"})
          => RasterCount(raw) >= RasterCount(old.raw)

\* set_metadata of the second of two bands, given by its ordinal, on an
\* object whose working tree was resized or reprojected: the name of band 2
\* of both trees is the new one
C27_Witness ==
    /\ call.op = "set_metadata"
    /\ call.err = "none"
    /\ call.args.bandID = Some(IntID(2))
    /\ RasterCount(raw) = 2
    /\ Geometry(vrt) # Geometry(raw)
    /\ raw.bands[2].metadata # old.raw.bands[2].metadata
    /\ raw.bands[1].metadata = old.raw.bands[1].metadata

=============================================================================
